---- MODULE Spec2Model ----
(***************************************************************************)
(* Model of src/main.py, the Liasotech purchase register analyzer: a       *)
(* Streamlit script that is re-executed from its first line on every       *)
(* interaction.  Text is modelled as a sequence of one-character strings,  *)
(* numbers as integers in hundredths (2.50 is 250).                        *)
(*                                                                         *)
(* Five specifications share the variables:                                *)
(*   SpecCat   tag_category applied to item names                          *)
(*   SpecScan  the upload block: scan of the pages, df, the amount slider  *)
(*   SpecView  the filters, the purchase summary and the key insights      *)
(*   SpecAgg   the top-N ranking and the unusual price alerts              *)
(*   SpecQA    the question handling at the end of the script              *)
(***************************************************************************)
EXTENDS Integers, Sequences, FiniteSets, TLC

VARIABLES
  pc,                  \* position in the script
  error,               \* "none", or the exception that ended the run
  item, tag,           \* SpecCat: the name given to tag_category, its result
  earlier,             \* SpecScan: whether an earlier run of the session parsed a row
  uploaded_file,       \* whether the uploader holds a document in this run
  page,                \* pages of the document taken so far
  scanned,             \* the lines read so far, <<page number, line>>
  data,                \* line 46: the list of parsed rows
  df,                  \* line 64: the table, with its Category column
  search, amount, sku, selected_categories,   \* lines 86-96: the widgets
  filtered_df,         \* lines 43, 98-109
  metrics,             \* lines 113-115
  insights,            \* lines 119-123
  top_data,            \* lines 144-149
  top_items,           \* lines 275-279
  outlier_df,          \* line 203
  question, has_key, fault, ext_calls, fallback_calls, answer   \* lines 245-338

vars == <<pc, error, item, tag, earlier, uploaded_file, page, scanned, data, df,
          search, amount, sku, selected_categories, filtered_df, metrics,
          insights, top_data, top_items, outlier_df, question, has_key, fault, ext_calls,
          fallback_calls, answer>>

catVars  == <<item, tag>>
scanVars == <<earlier, uploaded_file, page, scanned, data>>
viewVars == <<search, amount, sku, selected_categories, metrics, insights>>
aggVars  == <<top_data, top_items, outlier_df>>
qaVars   == <<question, has_key, fault, ext_calls, fallback_calls, answer>>

(***************************************************************************)
(* Bounds of the model.                                                    *)
(***************************************************************************)
MaxParts == 3      \* fragments in an item name given to tag_category
MaxDocLines == 3   \* lines in an uploaded document
MaxPages == 2      \* pages in an uploaded document
MaxTableRows == 2   \* rows of a table the filters start from
MaxRows == 3       \* rows of a filtered view the aggregations start from
MaxAsked == 2      \* the largest N written in a "top N items" question
MaxAskRows == 2    \* rows of the filtered view a question is asked about

(***************************************************************************)
(* Text helpers.                                                           *)
(***************************************************************************)
Min(S) == CHOOSE x \in S : \A y \in S : x <= y

Max(S) == CHOOSE x \in S : \A y \in S : y <= x

\* str.lower() on the letters the model's texts use
LowerChar(c) ==
  CASE c = "F" -> "f" [] c = "I" -> "i" [] c = "L" -> "l" [] c = "T" -> "t"
    [] c = "E" -> "e" [] c = "R" -> "r" [] c = "P" -> "p" [] c = "B" -> "b"
    [] c = "S" -> "s" [] c = "A" -> "a" [] c = "W" -> "w" [] c = "M" -> "m"
    [] OTHER -> c

Lower(s) == [i \in 1..Len(s) |-> LowerChar(s[i])]

\* Python's `t in s` on strings
Contains(s, t) ==
  \E i \in 0..(Len(s) - Len(t)) : SubSeq(s, i + 1, i + Len(t)) = t

IsSpace(c) == c \in {" ", "\t"}

\* str.strip()
RECURSIVE LStrip(_)
LStrip(s) == IF s # <<>> /\ IsSpace(Head(s)) THEN LStrip(Tail(s)) ELSE s

RECURSIVE RStrip(_)
RStrip(s) ==
  IF s # <<>> /\ IsSpace(s[Len(s)]) THEN RStrip(SubSeq(s, 1, Len(s) - 1)) ELSE s

Strip(s) == RStrip(LStrip(s))

RECURSIVE Concat(_)
Concat(parts) == IF parts = <<>> THEN <<>> ELSE Head(parts) \o Concat(Tail(parts))

SeqsUpTo(S, n) == UNION {[1..k -> S] : k \in 0..n}

IsPrefix(s, t) == Len(s) <= Len(t) /\ SubSeq(t, 1, Len(s)) = s

(***************************************************************************)
(* tag_category, lines 67-74.                                              *)
(***************************************************************************)
tFilter == <<"f", "i", "l", "t", "e", "r">>
tPipe == <<"p", "i", "p", "e">>
tInventory == <<"i", "n", "v", "e", "n", "t", "o", "r", "y">>
tValve == <<"v", "a", "l", "v", "e">>
tPump == <<"p", "u", "m", "p">>

\* a slip in the order of the branches: "pipe" tested before "filter"
tag_category_pipe_first(name) ==
  LET n == Lower(name) IN
  IF Contains(n, tPipe) THEN "Pipes"
  ELSE IF Contains(n, tFilter) THEN "Filters"
  ELSE IF Contains(n, tInventory) THEN "Inventory"
  ELSE IF Contains(n, tValve) THEN "Valves"
  ELSE IF Contains(n, tPump) THEN "Pumps"
  ELSE "Misc"

tag_category(name) ==
  LET n == Lower(name) IN
  IF Contains(n, tFilter) THEN "Filters"
  ELSE IF Contains(n, tPipe) THEN "Pipes"
  ELSE IF Contains(n, tInventory) THEN "Inventory"
  ELSE IF Contains(n, tValve) THEN "Valves"
  ELSE IF Contains(n, tPump) THEN "Pumps"
  ELSE "Misc"

(***************************************************************************)
(* SpecCat: tag_category on names put together from fragments, so that a   *)
(* trigger can stand anywhere in the name, in either case, and can also    *)
(* arise across two fragments.                                             *)
(***************************************************************************)
Fragments ==
  { <<"P", "i", "p", "e">>, <<"p", "i", "p", "e">>,
    <<"F", "I", "L", "T", "E", "R">>, <<"f", "i", "l">>, <<"t", "e", "r">>,
    tInventory, tValve, <<"p", "u", "m">>, <<"p">>, <<" ">>, <<"x">> }

ItemNames == {Concat(ps) : ps \in SeqsUpTo(Fragments, MaxParts)}

NoTag == "untagged"

CatInit ==
  /\ item \in ItemNames
  /\ tag = NoTag

\* line 76: df["Item Name"].apply(tag_category), one name
ApplyTag ==
  /\ pc = "cat"
  /\ tag = NoTag
  /\ tag' = tag_category(item)
  /\ UNCHANGED <<item, pc, error, scanVars, df, filtered_df, viewVars, aggVars, qaVars>>

(***************************************************************************)
(* The line grammar of lines 53-55, anchored at both ends of the line:      *)
(*   group 1, any characters, lazy; white space; group 2, a run of digits, *)
(*   commas and points; white space; the currency sign and group 3, such a *)
(*   run; white space; the currency sign and group 4, such a run; then,    *)
(*   optionally, white space and group 5, the rest of the line.            *)
(***************************************************************************)
Rupee == "Rs"   \* the currency sign U+20B9, one character

Digits == {"0", "1", "2", "3", "4", "5", "6", "7", "8", "9"}

IsNum(c) == c \in Digits \cup {",", "."}

\* the position after the longest run of \s starting at position p
RECURSIVE SpaceEnd(_, _)
SpaceEnd(s, p) == IF p <= Len(s) /\ IsSpace(s[p]) THEN SpaceEnd(s, p + 1) ELSE p

\* the position after the longest run of [\d,\.] starting at position p
RECURSIVE NumEnd(_, _)
NumEnd(s, p) == IF p <= Len(s) /\ IsNum(s[p]) THEN NumEnd(s, p + 1) ELSE p

NoMatch == [matched |-> FALSE]

\* The rest of the pattern after a group 1 of i characters.  The classes \s,
\* [\d,\.] and the currency sign are disjoint, so each greedy run is taken whole
\* or the attempt fails.
MatchFrom(s, i) ==
  LET p1 == SpaceEnd(s, i + 1)
      p2 == NumEnd(s, p1)
      p3 == SpaceEnd(s, p2)
      p4 == NumEnd(s, p3 + 1)
      p5 == SpaceEnd(s, p4)
      p6 == NumEnd(s, p5 + 1)
      p7 == SpaceEnd(s, p6)
  IN
  IF /\ p1 > i + 1 /\ p2 > p1 /\ p3 > p2
     /\ p3 <= Len(s) /\ s[p3] = Rupee /\ p4 > p3 + 1
     /\ p5 > p4 /\ p5 <= Len(s) /\ s[p5] = Rupee /\ p6 > p5 + 1
     /\ (p6 = Len(s) + 1 \/ p7 > p6)
  THEN [matched |-> TRUE,
        g1 |-> SubSeq(s, 1, i),
        g2 |-> SubSeq(s, p1, p2 - 1),
        g3 |-> SubSeq(s, p3 + 1, p4 - 1),
        g4 |-> SubSeq(s, p5 + 1, p6 - 1),
        \* group 5 did not take part (None) or is the rest of the line
        has5 |-> p6 # Len(s) + 1,
        g5 |-> IF p6 = Len(s) + 1 THEN <<>> ELSE SubSeq(s, p7, Len(s))]
  ELSE NoMatch

\* re.match: group 1 is lazy, so the shortest group 1 that lets the rest match
Match(s) ==
  LET ok == {i \in 0..Len(s) : MatchFrom(s, i).matched} IN
  IF ok = {} THEN NoMatch ELSE MatchFrom(s, Min(ok))

(***************************************************************************)
(* float(group.replace(",", "")), lines 58-60.                             *)
(***************************************************************************)
RemoveCommas(s) == SelectSeq(s, LAMBDA c : c # ",")

Count(s, c) == Cardinality({i \in 1..Len(s) : s[i] = c})

\* float() of a text of digits and points: one point at most, one digit at least
ValidFloat(s) ==
  /\ Count(s, ".") <= 1
  /\ \E i \in 1..Len(s) : s[i] \in Digits

DigitVal(c) ==
  CASE c = "0" -> 0 [] c = "1" -> 1 [] c = "2" -> 2 [] c = "3" -> 3
    [] c = "4" -> 4 [] c = "5" -> 5 [] c = "6" -> 6 [] c = "7" -> 7
    [] c = "8" -> 8 [] c = "9" -> 9

RECURSIVE IntVal(_)
IntVal(s) ==
  IF s = <<>> THEN 0 ELSE 10 * IntVal(SubSeq(s, 1, Len(s) - 1)) + DigitVal(s[Len(s)])

\* The value in hundredths of a valid text (the model's texts carry at most two
\* digits after the point).
ToNumber(s) ==
  LET dots == {i \in 1..Len(s) : s[i] = "."}
      d == IF dots = {} THEN Len(s) + 1 ELSE Min(dots)
      frac == SubSeq(s, d + 1, Len(s))
      two == SubSeq(frac \o <<"0", "0">>, 1, 2)
  IN 100 * IntVal(SubSeq(s, 1, d - 1)) + IntVal(two)

\* whether the three conversions of lines 58-60 succeed
NumbersOk(m) ==
  /\ ValidFloat(RemoveCommas(m.g2))
  /\ ValidFloat(RemoveCommas(m.g3))
  /\ ValidFloat(RemoveCommas(m.g4))

\* lines 57-62: the row appended for a matched line
Row(m) ==
  [ItemName |-> Strip(m.g1),
   Quantity |-> ToNumber(RemoveCommas(m.g2)),
   Amount |-> ToNumber(RemoveCommas(m.g3)),
   AvgPrice |-> ToNumber(RemoveCommas(m.g4)),
   SKU |-> IF m.has5 /\ m.g5 # <<>> THEN Strip(m.g5) ELSE <<>>]

\* lines 64-76: the table, each row with its Category
WithCategory(rows) ==
  [i \in 1..Len(rows) |->
     [ItemName |-> rows[i].ItemName, Quantity |-> rows[i].Quantity,
      Amount |-> rows[i].Amount, AvgPrice |-> rows[i].AvgPrice,
      SKU |-> rows[i].SKU, Category |-> tag_category(rows[i].ItemName)]]

(***************************************************************************)
(* The values the variables of the other specifications rest at.           *)
(***************************************************************************)
CatIdle == item = <<>> /\ tag = NoTag

ScanIdle ==
  earlier = FALSE /\ uploaded_file = FALSE /\ page = 0 /\ scanned = <<>> /\ data = <<>>

ViewIdle ==
  /\ search = <<>> /\ amount = 0 /\ sku = <<>> /\ selected_categories = {}
  /\ metrics = <<>> /\ insights = <<>>

AggIdle == top_data = <<>> /\ top_items = <<>> /\ outlier_df = <<>>

QAIdle ==
  /\ question = <<>> /\ has_key = FALSE /\ fault = "none"
  /\ ext_calls = 0 /\ fallback_calls = 0 /\ answer = <<>>

(***************************************************************************)
(* SpecScan: the upload block, lines 39-90.  The document is read as the   *)
(* scan goes: each page and each line is chosen when the loop reaches it,  *)
(* and scanned keeps what was read.                                        *)
(***************************************************************************)
Lines ==
  { \* F 1 Rs2 Rs3
    <<"F", " ", "1", " ", Rupee, "2", " ", Rupee, "3">>,
    \* b 2 1,0 Rs2.5 Rs3 S1 : a name with a space and a digit, a SKU
    <<"b", " ", "2", " ", "1", ",", "0", " ", Rupee, "2", ".", "5", " ",
      Rupee, "3", " ", "S", "1">>,
    \* F 1.2.3 Rs2 Rs3 : two points in the quantity
    <<"F", " ", "1", ".", "2", ".", "3", " ", Rupee, "2", " ", Rupee, "3">>,
    \* F 1 Rs, Rs3 : an amount of separators only
    <<"F", " ", "1", " ", Rupee, ",", " ", Rupee, "3">>,
    \* F 1 2 3 : no currency sign
    <<"F", " ", "1", " ", "2", " ", "3">>,
    \* F Rs2 Rs3 : no quantity
    <<"F", " ", Rupee, "2", " ", Rupee, "3">>,
    \* F 1 Rs2 Rs3x : text right after the unit price
    <<"F", " ", "1", " ", Rupee, "2", " ", Rupee, "3", "x">>,
    \* an empty name, tabs, white space at the end
    <<" ", "1", "\t", Rupee, "2", " ", Rupee, "3", " ">>,
    \* the empty line
    <<>> }

Terminal == {"crashed", "widgets", "ask"}

\* what the upload block leaves alone
scanRest == <<catVars, viewVars, aggVars, qaVars>>

\* a slip: the rows outlive the run (kept in the session, never emptied)
RunKeepingData(upload) ==
  /\ pc \in {"start"} \cup Terminal
  /\ earlier' = (earlier \/ data # <<>>)
  /\ uploaded_file' = upload
  /\ filtered_df' = <<>>
  /\ error' = "none"
  /\ page' = 0
  /\ scanned' = <<>>
  /\ df' = <<>>
  /\ data' = data
  /\ pc' = IF upload THEN "pages" ELSE "ask"
  /\ UNCHANGED scanRest

\* A script run up to line 48.  Streamlit executes the script again from line 1
\* with no variable bound: filtered_df = pd.DataFrame() (line 43) and, with a
\* document in the uploader, data = [] (line 46); df is bound at line 64 only.
\* Without a document the block of lines 45-236 is passed over.
Run(upload) ==
  /\ pc \in {"start"} \cup Terminal
  /\ earlier' = (earlier \/ data # <<>>)
  /\ uploaded_file' = upload
  /\ filtered_df' = <<>>
  /\ error' = "none"
  /\ page' = 0
  /\ scanned' = <<>>
  /\ df' = <<>>
  /\ data' = <<>>
  /\ pc' = IF upload THEN "pages" ELSE "ask"
  /\ UNCHANGED scanRest

\* lines 49-51: the next page; a page without text is passed over
TakePage(hasText) ==
  /\ pc = "pages"
  /\ page < MaxPages
  /\ hasText => Len(scanned) < MaxDocLines
  /\ page' = page + 1
  /\ pc' = IF hasText THEN "page" ELSE "pages"
  /\ UNCHANGED <<earlier, uploaded_file, scanned, data, df, filtered_df, error>>
  /\ UNCHANGED scanRest

\* a slip: the row is put in front of the list
ScanLineInFront(line) ==
  /\ pc \in {"page", "lines"}
  /\ Len(scanned) < MaxDocLines
  /\ scanned' = Append(scanned, <<page, line>>)
  /\ LET m == Match(line) IN
     IF ~m.matched
       THEN data' = data /\ pc' = "lines" /\ error' = error
       ELSE IF NumbersOk(m)
         THEN data' = <<Row(m)>> \o data /\ pc' = "lines" /\ error' = error
         ELSE data' = data /\ pc' = "crashed" /\ error' = "ValueError: float"
  /\ UNCHANGED <<earlier, uploaded_file, page, df, filtered_df>>
  /\ UNCHANGED scanRest

\* lines 52-62: one line of the page.  A line that does not match is passed
\* over; a matched line whose number does not convert raises at lines 58-60,
\* which nothing catches: the run ends there.
ScanLine(line) ==
  /\ pc \in {"page", "lines"}
  /\ Len(scanned) < MaxDocLines
  /\ scanned' = Append(scanned, <<page, line>>)
  /\ LET m == Match(line) IN
     IF ~m.matched
       THEN data' = data /\ pc' = "lines" /\ error' = error
       ELSE IF NumbersOk(m)
         THEN data' = Append(data, Row(m)) /\ pc' = "lines" /\ error' = error
         ELSE data' = data /\ pc' = "crashed" /\ error' = "ValueError: float"
  /\ UNCHANGED <<earlier, uploaded_file, page, df, filtered_df>>
  /\ UNCHANGED scanRest

\* the end of the lines of the page (text.split gives one line at least)
EndPage ==
  /\ pc = "lines"
  /\ pc' = "pages"
  /\ UNCHANGED <<earlier, uploaded_file, page, scanned, data, df, filtered_df, error>>
  /\ UNCHANGED scanRest

\* lines 64-76, after the last page: the table and its Category column
BuildDf ==
  /\ pc = "pages"
  /\ df' = WithCategory(data)
  /\ pc' = "df"
  /\ UNCHANGED <<earlier, uploaded_file, page, scanned, data, filtered_df, error>>
  /\ UNCHANGED scanRest

\* Lines 87-90: the Min Amount slider runs to int(df["Amount"].max()).  The
\* maximum of an empty column is NaN, and int(NaN) raises ValueError.
Slider ==
  /\ pc = "df"
  /\ IF df = <<>>
       THEN pc' = "crashed" /\ error' = "ValueError: int"
       ELSE pc' = "widgets" /\ error' = error
  /\ UNCHANGED <<earlier, uploaded_file, page, scanned, data, df, filtered_df>>
  /\ UNCHANGED scanRest

ScanInit ==
  /\ pc = "start" /\ error = "none"
  /\ ScanIdle /\ df = <<>> /\ filtered_df = <<>>
  /\ CatIdle /\ ViewIdle /\ AggIdle /\ QAIdle

ScanNext ==
  \/ \E upload \in BOOLEAN : Run(upload)
  \/ \E hasText \in BOOLEAN : TakePage(hasText)
  \/ \E line \in Lines : ScanLine(line)
  \/ EndPage
  \/ BuildDf
  \/ Slider

SpecScan == ScanInit /\ [][ScanNext]_vars

(***************************************************************************)
(* SpecCat.                                                                *)
(***************************************************************************)
CatStart ==
  /\ pc = "cat" /\ error = "none"
  /\ CatInit
  /\ ScanIdle /\ df = <<>> /\ filtered_df = <<>>
  /\ ViewIdle /\ AggIdle /\ QAIdle

CatNext == ApplyTag

SpecCat == CatStart /\ [][CatNext]_vars

(***************************************************************************)
(* SpecView: the sidebar filters, the purchase summary and the key         *)
(* insights, lines 86-134, from a table of one row at least (an empty      *)
(* table ends the run at the slider).                                      *)
(***************************************************************************)
Rec(n, q, a, p, s) ==
  [ItemName |-> n, Quantity |-> q, Amount |-> a, AvgPrice |-> p, SKU |-> s,
   Category |-> tag_category(n)]

ViewRecords ==
  {Rec(n, 500 - a, a, 100, s) :
     n \in {<<"b">>, <<"P", "i", "p", "e">>},
     a \in {150, 300},
     s \in {<<>>, <<"S", "1">>}}

TablesOf(records, n) == UNION {[1..k -> records] : k \in 1..n}

\* the texts typed into "Search Item Name"
SearchTexts == {<<>>, <<"p", "i">>, <<".">>, <<"z">>, <<"(">>}

\* the texts typed into "Filter by SKU"
SkuTexts == {<<>>, <<"s">>}

\* re.compile of the typed text: an opening parenthesis that is never closed is
\* an error in a pattern
PatternOk(pat) == Count(pat, "(") = Count(pat, ")")

\* Series.str.contains(pat, case=False): regex=True is the default, so pat is
\* searched as a regular expression with re.IGNORECASE; of the characters of
\* the model's texts the point stands for any character, the others for
\* themselves in either case.
StrContains(text, pat) ==
  \E i \in 0..(Len(text) - Len(pat)) :
    \A k \in 1..Len(pat) :
      pat[k] = "." \/ LowerChar(pat[k]) = LowerChar(text[i + k])

Column(rows, col) == [i \in 1..Len(rows) |-> rows[i][col]]

ColumnSet(rows, col) == {rows[i][col] : i \in 1..Len(rows)}

RECURSIVE SumSeq(_)
SumSeq(xs) == IF xs = <<>> THEN 0 ELSE Head(xs) + SumSeq(Tail(xs))

\* int(df["Amount"].max()), line 89, amounts in hundredths
SliderMax(rows) == Max(ColumnSet(rows, "Amount")) \div 100

\* lines 98-109
ApplyFilters(rows, s, a, k, cats) ==
  LET f1 == IF s # <<>>
              THEN SelectSeq(rows, LAMBDA r : StrContains(r.ItemName, s))
              ELSE rows
      f2 == IF a > 0 THEN SelectSeq(f1, LAMBDA r : r.Amount >= 100 * a) ELSE f1
      f3 == IF k # <<>> THEN SelectSeq(f2, LAMBDA r : StrContains(r.SKU, k)) ELSE f2
      f4 == IF cats # {} THEN SelectSeq(f3, LAMBDA r : r.Category \in cats) ELSE f3
  IN f4

viewRest == <<catVars, scanVars, aggVars, qaVars>>

\* Lines 86-109: the values of the four widgets and the filtered view.  A text
\* that is no regular expression raises re.error at lines 100 or 105.
Filter(s, a, k, cats) ==
  /\ pc = "widgets"
  /\ a \in 0..SliderMax(df)
  /\ cats \subseteq ColumnSet(df, "Category")
  /\ search' = s /\ amount' = a /\ sku' = k /\ selected_categories' = cats
  /\ IF PatternOk(s) /\ PatternOk(k)
       THEN /\ filtered_df' = ApplyFilters(df, s, a, k, cats)
            /\ pc' = "summary" /\ error' = error
       ELSE /\ filtered_df' = df
            /\ pc' = "crashed" /\ error' = "re.error"
  /\ UNCHANGED <<df, metrics, insights>>
  /\ UNCHANGED viewRest

\* lines 111-115: sums of an empty column are 0, nunique of an empty column is 0
Summary ==
  /\ pc = "summary"
  /\ metrics' = <<SumSeq(Column(filtered_df, "Amount")),
                  SumSeq(Column(filtered_df, "Quantity")),
                  Cardinality(ColumnSet(filtered_df, "ItemName"))>>
  /\ pc' = "insights"
  /\ UNCHANGED <<df, filtered_df, search, amount, sku, selected_categories,
                 insights, error>>
  /\ UNCHANGED viewRest

\* Series.idxmax(): the first row that holds the maximum of the column
IdxMax(rows, col) ==
  Min({i \in 1..Len(rows) : rows[i][col] = Max(ColumnSet(rows, col))})

\* lines 118-123: the three rows, or None (the empty sequence) for each when
\* idxmax raises on the empty view
KeyRows(rows) ==
  IF rows = <<>>
    THEN [most_purchased |-> <<>>, highest_spend |-> <<>>, most_expensive |-> <<>>]
    ELSE [most_purchased |-> <<rows[IdxMax(rows, "Quantity")]>>,
          highest_spend |-> <<rows[IdxMax(rows, "Amount")]>>,
          most_expensive |-> <<rows[IdxMax(rows, "AvgPrice")]>>]

\* Lines 117-134.  The f-string of lines 127-134 subscripts most_purchased,
\* highest_spend and most_expensive: with None it raises TypeError, outside
\* the try of lines 118-123.
Insights ==
  /\ pc = "insights"
  /\ insights' = <<KeyRows(filtered_df)>>
  /\ IF filtered_df = <<>>
       THEN pc' = "crashed" /\ error' = "TypeError"
       ELSE pc' = "charts" /\ error' = error
  /\ UNCHANGED <<df, filtered_df, search, amount, sku, selected_categories, metrics>>
  /\ UNCHANGED viewRest

ViewInit ==
  /\ pc = "widgets" /\ error = "none"
  /\ df \in TablesOf(ViewRecords, MaxTableRows)
  /\ filtered_df = <<>>
  /\ CatIdle /\ ScanIdle /\ ViewIdle /\ AggIdle /\ QAIdle

ViewNext ==
  \/ \E s \in SearchTexts, a \in 0..SliderMax(df), k \in SkuTexts,
        cats \in SUBSET ColumnSet(df, "Category") : Filter(s, a, k, cats)
  \/ Summary
  \/ Insights

SpecView == ViewInit /\ [][ViewNext]_vars

(***************************************************************************)
(* SpecAgg: the top-N ranking (lines 144-149 and 274-279) and the unusual  *)
(* price alerts (lines 196-206), from a filtered view of one row at least. *)
(***************************************************************************)
\* the code points of the characters of the model's item names
CodePoint(c) ==
  CASE c = " " -> 32 [] c = "1" -> 49 [] c = "2" -> 50 [] c = "B" -> 66
    [] c = "F" -> 70 [] c = "P" -> 80 [] c = "a" -> 97 [] c = "b" -> 98
    [] c = "e" -> 101 [] c = "i" -> 105 [] c = "p" -> 112

\* s < t on Python strings
StrLess(s, t) ==
  \E k \in 1..(Len(t)) :
    /\ k <= Len(s) + 1
    /\ \A j \in 1..(k - 1) : s[j] = t[j]
    /\ k = Len(s) + 1 \/ CodePoint(s[k]) < CodePoint(t[k])

\* the elements of a set of names in ascending order
RECURSIVE SortedNames(_)
SortedNames(S) ==
  IF S = {} THEN <<>>
  ELSE LET least == CHOOSE x \in S : \A y \in S \ {x} : StrLess(x, y)
       IN <<least>> \o SortedNames(S \ {least})

\* the first row of rows that carries the name
FirstRowOf(rows, n) == Min({i \in 1..Len(rows) : rows[i].ItemName = n})

\* the names of rows in the order of their first rows
RECURSIVE NamesByAppearance(_)
NamesByAppearance(rows) ==
  IF rows = <<>> THEN <<>>
  ELSE LET before == NamesByAppearance(SubSeq(rows, 1, Len(rows) - 1))
           n == rows[Len(rows)].ItemName
       IN IF \E i \in 1..Len(before) : before[i] = n THEN before
          ELSE Append(before, n)

GroupSum(rows, n, col) ==
  SumSeq(Column(SelectSeq(rows, LAMBDA r : r.ItemName = n), col))

\* a slip: groupby(..., sort=False), the groups in the order of appearance
GroupByUnsorted(rows, col) ==
  LET keys == NamesByAppearance(rows) IN
  [i \in 1..Len(keys) |-> <<keys[i], GroupSum(rows, keys[i], col)>>]

\* groupby("Item Name")[col].sum(): groupby sorts the group keys, so the
\* series runs over the names in ascending order
GroupBySum(rows, col) ==
  LET keys == SortedNames(ColumnSet(rows, "ItemName")) IN
  [i \in 1..Len(keys) |-> <<keys[i], GroupSum(rows, keys[i], col)>>]

Orders(n) ==
  {f \in [1..n -> 1..n] : \A i, j \in 1..n : i # j => f[i] # f[j]}

\* the arrangements of a series in descending order of its values
SortedDescending(series) ==
  {[i \in 1..Len(series) |-> series[f[i]]] :
     f \in {g \in Orders(Len(series)) :
              \A i \in 1..(Len(series) - 1) : series[g[i]][2] >= series[g[i + 1]][2]}}

\* the stable one: equal values keep the order they have in the series
StableDescending(series) ==
  CHOOSE t \in SortedDescending(series) :
    \A i \in 1..(Len(t) - 1) :
      t[i][2] = t[i + 1][2] =>
        \E a, b \in 1..Len(series) : a < b /\ series[a] = t[i] /\ series[b] = t[i + 1]

\* Series.nlargest(n) with keep="first", the default: the n largest values in
\* descending order, of equal values the first occurrences in the series, in
\* their order; the whole series for n >= len, nothing for n <= 0.
NLargest(series, n) ==
  IF n <= 0 THEN <<>>
  ELSE IF n >= Len(series) THEN StableDescending(series)
  ELSE SubSeq(StableDescending(series), 1, n)

Metrics == {"Amount", "Quantity"}

TopNMin == 5
TopNMax == 30
TopItemsDefault == 5

\* rows of three names (two of them Misc, one Pipes), amounts 1.00 and 2.00,
\* unit prices 0, 2.00 and 4.00
AggRecords ==
  {Rec(n, 300 - x[1], x[1], x[2], <<>>) :
     n \in {<<"b">>, <<"a">>, <<"P", "i", "p", "e">>},
     x \in {<<100, 0>>, <<200, 200>>, <<100, 400>>}}

aggRest == <<catVars, scanVars, viewVars, qaVars, df, filtered_df, error>>

\* lines 144-149: "Top Items By" and the "Top N Items" slider (5 to 30)
TopData(top_metric, top_n) ==
  /\ pc = "charts"
  /\ top_n \in TopNMin..TopNMax
  /\ top_data' = [by |-> top_metric, n |-> top_n,
                  rows |-> NLargest(GroupBySum(filtered_df, top_metric), top_n)]
  /\ pc' = "alerts"
  /\ UNCHANGED <<top_items, outlier_df>>
  /\ UNCHANGED aggRest

\* the distinct values of a column in the order of their first rows
RECURSIVE Unique(_)
Unique(xs) ==
  IF xs = <<>> THEN <<>>
  ELSE LET before == Unique(SubSeq(xs, 1, Len(xs) - 1))
       IN IF \E i \in 1..Len(before) : before[i] = xs[Len(xs)] THEN before
          ELSE Append(before, xs[Len(xs)])

Positions(rows) == [i \in 1..Len(rows) |-> i]

\* a slip: the mean is taken over the whole view, not over the category
FlaggedByViewMean(rows, cat) ==
  LET all == Positions(rows)
      total == SumSeq([i \in 1..Len(all) |-> rows[all[i]].AvgPrice])
  IN SelectSeq(SelectSeq(all, LAMBDA i : rows[i].Category = cat),
               LAMBDA i : 2 * Len(all) * rows[i].AvgPrice > 3 * total)

\* lines 199-201: the rows of one category (by their position in the view)
\* whose price exceeds 1.5 times the mean price of the category; the
\* comparison price > 1.5 * total / count, cleared of its fractions
Flagged(rows, cat) ==
  LET group == SelectSeq(Positions(rows), LAMBDA i : rows[i].Category = cat)
      total == SumSeq([i \in 1..Len(group) |-> rows[group[i]].AvgPrice])
  IN SelectSeq(group, LAMBDA i : 2 * Len(group) * rows[i].AvgPrice > 3 * total)

\* lines 196-203: category by category, in the order of Series.unique()
Outliers ==
  /\ pc = "alerts"
  /\ LET cats == Unique(Column(filtered_df, "Category")) IN
     outlier_df' = <<Concat([k \in 1..Len(cats) |-> Flagged(filtered_df, cats[k])])>>
  /\ pc' = "ask"
  /\ UNCHANGED <<top_data, top_items>>
  /\ UNCHANGED aggRest

\* lines 274-279, the "top ... items" branch of smart_fallback: N is the number
\* that follows "top" in the question, 5 without one
TopItems(by, n) ==
  /\ pc = "ask"
  /\ top_items' = [by |-> by, n |-> n,
                   rows |-> NLargest(GroupBySum(filtered_df, by), n)]
  /\ pc' = "done"
  /\ UNCHANGED <<top_data, outlier_df>>
  /\ UNCHANGED aggRest

AggInit ==
  /\ pc = "charts" /\ error = "none"
  /\ filtered_df \in TablesOf(AggRecords, MaxRows)
  /\ df = filtered_df
  /\ CatIdle /\ ScanIdle /\ ViewIdle /\ AggIdle /\ QAIdle

AggNext ==
  \/ \E m \in Metrics, n \in {TopNMin, TopNMax} : TopData(m, n)
  \/ Outliers
  \/ \E by \in Metrics, n \in (0..MaxAsked) \cup {TopItemsDefault} : TopItems(by, n)

SpecAgg == AggInit /\ [][AggNext]_vars

(***************************************************************************)
(* SpecQA: the question handling, lines 239-338.                           *)
(***************************************************************************)
kwAvgPrice == {<<"h", "i", "g", "h", "e", "s", "t", " ", "a", "v", "e", "r", "a", "g", "e", " ", "p", "r", "i", "c", "e">>, <<"a", "v", "g", " ", "p", "r", "i", "c", "e">>, <<"c", "o", "s", "t", "l", "i", "e", "s", "t", " ", "c", "a", "t", "e", "g", "o", "r", "y">>}
kwMostPurchased == {<<"m", "o", "s", "t", " ", "p", "u", "r", "c", "h", "a", "s", "e", "d">>, <<"h", "i", "g", "h", "e", "s", "t", " ", "q", "u", "a", "n", "t", "i", "t", "y">>, <<"m", "a", "x", " ", "q", "u", "a", "n", "t", "i", "t", "y">>}
kwMostExpensive == {<<"m", "o", "s", "t", " ", "e", "x", "p", "e", "n", "s", "i", "v", "e">>, <<"h", "i", "g", "h", "e", "s", "t", " ", "u", "n", "i", "t", " ", "p", "r", "i", "c", "e">>}
kwHighestSpend == {<<"h", "i", "g", "h", "e", "s", "t", " ", "s", "p", "e", "n", "d">>, <<"m", "o", "s", "t", " ", "s", "p", "e", "n", "t">>, <<"b", "i", "g", "g", "e", "s", "t", " ", "p", "u", "r", "c", "h", "a", "s", "e">>}
kwTop == <<"t", "o", "p">>
kwItems == <<"i", "t", "e", "m", "s">>
kwAmount == <<"a", "m", "o", "u", "n", "t">>
kwSpend == <<"s", "p", "e", "n", "d">>
kwQuantity == <<"q", "u", "a", "n", "t", "i", "t", "y">>
kwPerCategory == <<"a", "v", "e", "r", "a", "g", "e", " ", "p", "r", "i", "c", "e", " ", "p", "e", "r", " ", "c", "a", "t", "e", "g", "o", "r", "y">>

\* any(x in q for x in kws)
AnyIn(kws, q) == \E x \in kws : Contains(q, x)

\* re.search(r"top (\d+)", q): the positions where "top ", then a digit, stand
TopNumberAt(q) ==
  {i \in 1..Len(q) :
     /\ i + 4 <= Len(q)
     /\ SubSeq(q, i, i + 3) = kwTop \o <<" ">>
     /\ q[i + 4] \in Digits}

RECURSIVE DigitsEnd(_, _)
DigitsEnd(s, p) == IF p <= Len(s) /\ s[p] \in Digits THEN DigitsEnd(s, p + 1) ELSE p

\* lines 275-276
AskedN(q) ==
  IF TopNumberAt(q) = {} THEN TopItemsDefault
  ELSE LET i == Min(TopNumberAt(q))
       IN IntVal(SubSeq(q, i + 4, DigitsEnd(q, i + 4) - 1))

\* line 277
AskedBy(q) ==
  IF Contains(q, kwAmount) \/ Contains(q, kwSpend) THEN "Amount"
  ELSE IF Contains(q, kwQuantity) THEN "Quantity"
  ELSE "Amount"

\* the categories in ascending order of their names
CategoryOrder == <<"Filters", "Inventory", "Misc", "Pipes", "Pumps", "Valves">>

\* groupby("Category")["Avg Price"].mean(): <<category, total, count>> for each
\* category of the rows, the categories in ascending order
CategoryMeans(rows) ==
  LET cats == SelectSeq(CategoryOrder, LAMBDA c : c \in ColumnSet(rows, "Category")) IN
  [k \in 1..Len(cats) |->
     LET g == SelectSeq(rows, LAMBDA r : r.Category = cats[k])
     IN <<cats[k], SumSeq(Column(g, "AvgPrice")), Len(g)>>]

\* .idxmax() of the means: the first category that holds the largest mean
CostliestCategory(rows) ==
  LET ms == CategoryMeans(rows)
      best == {k \in 1..Len(ms) :
                 \A l \in 1..Len(ms) : ms[k][2] * ms[l][3] >= ms[l][2] * ms[k][3]}
  IN ms[Min(best)][1]

\* _safe_idxmax, lines 250-252
safe_idxmax(rows, col) == IF rows = <<>> THEN <<>> ELSE <<rows[IdxMax(rows, col)]>>

\* smart_fallback, lines 247-295: the first branch whose keywords occur in the
\* lower-cased question
smart_fallback(qtext, rows) ==
  LET q == Lower(qtext) IN
  IF AnyIn(kwAvgPrice, q)
    THEN [kind |-> "costliest category", value |-> CostliestCategory(rows)]
  ELSE IF AnyIn(kwMostPurchased, q)
    THEN [kind |-> "most purchased", value |-> safe_idxmax(rows, "Quantity")]
  ELSE IF AnyIn(kwMostExpensive, q)
    THEN [kind |-> "most expensive", value |-> safe_idxmax(rows, "AvgPrice")]
  ELSE IF AnyIn(kwHighestSpend, q)
    THEN [kind |-> "highest spend", value |-> safe_idxmax(rows, "Amount")]
  ELSE IF Contains(q, kwTop) /\ Contains(q, kwItems)
    THEN [kind |-> "top items",
          value |-> NLargest(GroupBySum(rows, AskedBy(q)), AskedN(q))]
  ELSE IF Contains(q, kwPerCategory)
    THEN [kind |-> "average price per category", value |-> CategoryMeans(rows)]
  ELSE [kind |-> "sorry", value |-> <<>>]

\* the texts typed into "Ask a question"; the empty text is no question
Questions ==
  { <<>>,
    <<"T", "o", "p", " ", "1", " ", "i", "t", "e", "m", "s">>,
    <<"t", "o", "p", " ", "i", "t", "e", "m", "s", " ", "b", "y", " ", "q", "u", "a", "n", "t", "i", "t", "y">>,
    <<"M", "o", "s", "t", " ", "p", "u", "r", "c", "h", "a", "s", "e", "d">>,
    <<"a", "v", "g", " ", "p", "r", "i", "c", "e">>,
    <<"h", "i", "g", "h", "e", "s", "t", " ", "s", "p", "e", "n", "d">>,
    <<"a", "v", "e", "r", "a", "g", "e", " ", "p", "r", "i", "c", "e", " ", "p", "e", "r", " ", "c", "a", "t", "e", "g", "o", "r", "y">>,
    <<"W", "h", "o", "?">> }

QARecords ==
  {Rec(n, 300 - x[1], x[1], x[2], <<>>) :
     n \in {<<"b">>, <<"P", "i", "p", "e">>},
     x \in {<<100, 0>>, <<200, 200>>, <<100, 400>>}}

qaRest == <<catVars, scanVars, viewVars, aggVars, df, filtered_df>>

\* lines 243-301: the text of the input; without a text nothing is done, with
\* an empty view a warning is shown and nothing is asked
Ask(q) ==
  /\ pc = "ask"
  /\ question' = q
  /\ pc' = IF q = <<>> \/ filtered_df = <<>> THEN "done" ELSE "try"
  /\ UNCHANGED <<has_key, fault, ext_calls, fallback_calls, answer, error>>
  /\ UNCHANGED qaRest

\* Lines 303-305 and 328-332, inside the try: the look-up of the key in
\* st.secrets, which raises when there is no secrets file; without a key the
\* local engine answers.
CheckKey(raises) ==
  /\ pc = "try"
  /\ IF raises
       THEN /\ fault' = "secrets" /\ pc' = "except"
            /\ UNCHANGED <<fallback_calls, answer>>
       ELSE IF has_key
         THEN pc' = "client" /\ UNCHANGED <<fault, fallback_calls, answer>>
         ELSE /\ fallback_calls' = fallback_calls + 1
              /\ answer' = <<smart_fallback(question, filtered_df)>>
              /\ pc' = "done"
              /\ UNCHANGED fault
  /\ UNCHANGED <<question, has_key, ext_calls, error>>
  /\ UNCHANGED qaRest

\* lines 306-310: the import of the client library and the client
MakeClient(raises) ==
  /\ pc = "client"
  /\ IF raises THEN fault' = "client" /\ pc' = "except"
               ELSE fault' = fault /\ pc' = "request"
  /\ UNCHANGED <<question, has_key, ext_calls, fallback_calls, answer, error>>
  /\ UNCHANGED qaRest

\* lines 312-324: the one request to the hosted model
Request(raises) ==
  /\ pc = "request"
  /\ ext_calls' = ext_calls + 1
  /\ IF raises THEN fault' = "request" /\ pc' = "except"
               ELSE fault' = fault /\ pc' = "response"
  /\ UNCHANGED <<question, has_key, fallback_calls, answer, error>>
  /\ UNCHANGED qaRest

\* lines 325-326: the text of the first choice of the response
ReadResponse(raises) ==
  /\ pc = "response"
  /\ IF raises
       THEN fault' = "response" /\ pc' = "except" /\ answer' = answer
       ELSE /\ fault' = fault /\ pc' = "done"
            /\ answer' = <<[kind |-> "hosted model", value |-> <<>>]>>
  /\ UNCHANGED <<question, has_key, ext_calls, fallback_calls, error>>
  /\ UNCHANGED qaRest

\* a slip: the handler sends the request once more before it gives up
ExceptWithRetry ==
  /\ pc = "except"
  /\ IF fault \in {"request", "response"} /\ ext_calls < 2
       THEN pc' = "request" /\ UNCHANGED <<fallback_calls, answer>>
       ELSE /\ fallback_calls' = fallback_calls + 1
            /\ answer' = <<smart_fallback(question, filtered_df)>>
            /\ pc' = "done"
  /\ UNCHANGED <<question, has_key, fault, ext_calls, error>>
  /\ UNCHANGED qaRest

\* lines 334-338: except Exception, the local engine answers
Except ==
  /\ pc = "except"
  /\ fallback_calls' = fallback_calls + 1
  /\ answer' = <<smart_fallback(question, filtered_df)>>
  /\ pc' = "done"
  /\ UNCHANGED <<question, has_key, fault, ext_calls, error>>
  /\ UNCHANGED qaRest

QAInit ==
  /\ pc = "ask" /\ error = "none"
  /\ filtered_df \in TablesOf(QARecords, MaxAskRows) \cup {<<>>}
  /\ df = filtered_df
  /\ has_key \in BOOLEAN
  /\ question = <<>> /\ fault = "none"
  /\ ext_calls = 0 /\ fallback_calls = 0 /\ answer = <<>>
  /\ CatIdle /\ ScanIdle /\ ViewIdle /\ AggIdle

QANext ==
  \/ \E q \in Questions : Ask(q)
  \/ \E raises \in BOOLEAN : CheckKey(raises)
  \/ \E raises \in BOOLEAN : MakeClient(raises)
  \/ \E raises \in BOOLEAN : Request(raises)
  \/ \E raises \in BOOLEAN : ReadResponse(raises)
  \/ Except

SpecQA == QAInit /\ [][QANext]_vars

(***************************************************************************)
(* Claims about tag_category (SpecCat).                                    *)
(***************************************************************************)
\* the rule list of the specification, in its order
Rules ==
  << <<tFilter, "Filters">>, <<tPipe, "Pipes">>, <<tInventory, "Inventory">>,
     <<tValve, "Valves">>, <<tPump, "Pumps">> >>

\* the positions of the rules whose trigger occurs in the lower-cased name
Hits(name) == {k \in 1..Len(Rules) : Contains(Lower(name), Rules[k][1])}

\* C1: the category of a name is that of the first rule, in the order filter,
\* pipe, inventory, valve, pump, whose trigger occurs in the lower-cased name,
\* and Misc when none occurs; a name with both "pipe" and "filter" is Filters
\* wherever the two stand in the name.
C1_FirstRuleWins ==
  tag # NoTag =>
    /\ tag = IF Hits(item) = {} THEN "Misc" ELSE Rules[Min(Hits(item))][2]
    /\ (Contains(Lower(item), tPipe) /\ Contains(Lower(item), tFilter))
         => tag = "Filters"

\* a tagged name that begins with "Pipe" and has "FILTER" after it
C1_Witness ==
  /\ tag = "Filters"
  /\ Len(item) > 4 /\ Lower(SubSeq(item, 1, 4)) = tPipe
  /\ Hits(item) = {1, 2}

(***************************************************************************)
(* Claims about the upload block (SpecScan).                               *)
(***************************************************************************)
\* the rows of the lines of sc that match the grammar, in the order of sc
RECURSIVE RowsOf(_)
RowsOf(sc) ==
  IF sc = <<>> THEN <<>>
  ELSE LET m == Match(sc[Len(sc)][2])
           before == RowsOf(SubSeq(sc, 1, Len(sc) - 1))
       IN IF m.matched THEN Append(before, Row(m)) ELSE before

\* the scan is under way or has ended without an exception
ScanAlive == uploaded_file /\ pc \in {"pages", "page", "lines", "df", "widgets"}

\* a step of the scan appends to the list of rows or leaves it as it is
AppendOnly == pc \in {"pages", "page", "lines", "df"} => IsPrefix(data, data')

C3_LastUploadOnly ==
  /\ (uploaded_file /\ pc \in {"df", "widgets"})
       => df = WithCategory(RowsOf(scanned))
  /\ (uploaded_file /\ pc = "crashed" /\ error = "ValueError: int") => df = <<>>
  /\ (~uploaded_file /\ pc = "ask") => filtered_df = <<>>

\* the table of a second upload, after a run that parsed rows of its own
C3_Witness ==
  /\ earlier
  /\ pc = "widgets" /\ Len(df) = 1 /\ Len(scanned) = 1

\* a run without a document after a run that parsed rows
C3_WitnessNoUpload == earlier /\ pc = "ask"

\* C4: for every line that matches the grammar the three conversions to a
\* number succeed.
C4_NoMalformedNumber ==
  \A i \in 1..Len(scanned) :
    Match(scanned[i][2]).matched => NumbersOk(Match(scanned[i][2]))

\* C5: a document in which no line matches raises no error in the run.
C5_EmptyDocumentNoError ==
  (uploaded_file /\ \A i \in 1..Len(scanned) : ~Match(scanned[i][2]).matched)
    => error = "none"

(***************************************************************************)
(* Claims about the filters and the insights (SpecView).                   *)
(***************************************************************************)
\* text t occurs in s, letters compared in either case
ContainsNoCase(s, t) == Contains(Lower(s), Lower(t))

\* the predicates of a filter specification that are in force, on one row
Satisfies(r) ==
  /\ search # <<>> => ContainsNoCase(r.ItemName, search)
  /\ amount > 0 => r.Amount >= 100 * amount
  /\ sku # <<>> => ContainsNoCase(r.SKU, sku)
  /\ selected_categories # {} => r.Category \in selected_categories

\* C8: the filtered view holds the rows of the table that satisfy every
\* predicate in force (name substring, minimum amount, SKU substring, selected
\* categories), in the order of the table.
C8_ViewIsExactSubsequence ==
  pc \in {"summary", "insights", "charts"}
    => filtered_df = SelectSeq(df, Satisfies)

\* C6: with an empty filtered view the key insights report no row for most
\* purchased, highest spend and most expensive, the summary reports 0, 0 and
\* 0, and the run goes on without an exception.
C6_EmptyViewNoData ==
  (filtered_df = <<>> /\ insights # <<>>)
    => /\ insights[1] = KeyRows(<<>>)
       /\ metrics = <<0, 0, 0>>
       /\ error = "none"

(***************************************************************************)
(* Claims about the ranking and the price alerts (SpecAgg).                *)
(***************************************************************************)
Names(rows) == ColumnSet(rows, "ItemName")

\* t ranks the n largest groups of rows by the sum of col, in descending order
IsRanking(t, rows, col, n) ==
  /\ Len(t) = IF n < Cardinality(Names(rows)) THEN n ELSE Cardinality(Names(rows))
  /\ \A i \in 1..Len(t) :
       t[i][1] \in Names(rows) /\ t[i][2] = GroupSum(rows, t[i][1], col)
  /\ \A i, j \in 1..Len(t) : i # j => t[i][1] # t[j][1]
  /\ \A i \in 1..(Len(t) - 1) : t[i][2] >= t[i + 1][2]
  /\ \A x \in Names(rows) \ {t[i][1] : i \in 1..Len(t)} :
       \A i \in 1..Len(t) : GroupSum(rows, x, col) <= t[i][2]

\* among equal sums of t the order Before decides: who comes first, and who
\* is taken at the cut-off
TiesBy(t, rows, col, Before(_, _)) ==
  /\ \A i \in 1..(Len(t) - 1) :
       t[i][2] = t[i + 1][2] => Before(t[i][1], t[i + 1][1])
  /\ \A x \in Names(rows) \ {t[i][1] : i \in 1..Len(t)} :
       \A i \in 1..Len(t) : GroupSum(rows, x, col) = t[i][2] => Before(t[i][1], x)

AppearsBefore(x, y) == FirstRowOf(filtered_df, x) < FirstRowOf(filtered_df, y)

\* C7, as claimed: the ranking holds the N largest groups in descending order of
\* their sums, equal sums ordered and cut off by the first appearance of the
\* item name in the view.
C7_TiesByFirstAppearance ==
  /\ top_data # <<>> =>
       /\ IsRanking(top_data.rows, filtered_df, top_data.by, top_data.n)
       /\ TiesBy(top_data.rows, filtered_df, top_data.by, AppearsBefore)
  /\ top_items # <<>> =>
       /\ IsRanking(top_items.rows, filtered_df, top_items.by, top_items.n)
       /\ TiesBy(top_items.rows, filtered_df, top_items.by, AppearsBefore)

\* C7, amended: the ranking holds the N largest groups in descending order of
\* their sums, equal sums ordered and cut off by the ascending order of the
\* item names, which is the order of the grouped series.
C7_TiesByName ==
  /\ top_data # <<>> =>
       /\ IsRanking(top_data.rows, filtered_df, top_data.by, top_data.n)
       /\ TiesBy(top_data.rows, filtered_df, top_data.by, StrLess)
  /\ top_items # <<>> =>
       /\ IsRanking(top_items.rows, filtered_df, top_items.by, top_items.n)
       /\ TiesBy(top_items.rows, filtered_df, top_items.by, StrLess)

\* a top-1 ranking of two names with equal sums, the later name of the view
\* taken because it is the lesser
C7_Witness ==
  /\ top_items # <<>> /\ top_items.n = 1 /\ Len(filtered_df) = 2
  /\ filtered_df[1].ItemName # filtered_df[2].ItemName
  /\ filtered_df[1][top_items.by] = filtered_df[2][top_items.by]
  /\ top_items.rows[1][1] = filtered_df[2].ItemName

\* the rows of the category of row i
SameCategory(rows, i) == {j \in 1..Len(rows) : rows[j].Category = rows[i].Category}

\* the price of row i exceeds 1.5 times the mean price of its category
ExceedsCategoryMean(rows, i) ==
  LET g == SameCategory(rows, i)
      total == SumSeq([k \in 1..Len(rows) |-> IF k \in g THEN rows[k].AvgPrice ELSE 0])
  IN 2 * Cardinality(g) * rows[i].AvgPrice > 3 * total

\* C9: a row is flagged exactly when its unit price exceeds 1.5 times the mean
\* unit price of the rows of its category in the view; a category of one row
\* contributes no row, whatever its price.
C9_OutlierRule ==
  outlier_df # <<>> =>
    /\ \A i \in 1..Len(filtered_df) :
         (\E k \in 1..Len(outlier_df[1]) : outlier_df[1][k] = i)
           <=> ExceedsCategoryMean(filtered_df, i)
    /\ \A k, l \in 1..Len(outlier_df[1]) : k # l => outlier_df[1][k] # outlier_df[1][l]
    /\ \A i \in 1..Len(filtered_df) :
         Cardinality(SameCategory(filtered_df, i)) = 1
           => \A k \in 1..Len(outlier_df[1]) : outlier_df[1][k] # i

\* a view of two categories: a flagged row in one, a lone row of price 0 and
\* so no flagged row in the other
C9_Witness ==
  /\ outlier_df # <<>> /\ Len(outlier_df[1]) = 1
  /\ \E i \in 1..Len(filtered_df) :
       /\ Cardinality(SameCategory(filtered_df, i)) = 1
       /\ filtered_df[i].AvgPrice = 0

(***************************************************************************)
(* Claims about the question handling (SpecQA).                            *)
(***************************************************************************)
\* C10: for a question on a view that is not empty, a failure of the hosted
\* call at any point is caught, the request is not sent again, and the local
\* engine answers, called once; no failure leaves the step; without a key the
\* local engine answers and no request is sent.
C10_FallbackOnce ==
  /\ error = "none"
  /\ ext_calls <= 1 /\ fallback_calls <= 1
  /\ (pc = "done" /\ question # <<>> /\ filtered_df # <<>>) =>
       /\ fault # "none" =>
            /\ fallback_calls = 1
            /\ answer = <<smart_fallback(question, filtered_df)>>
       /\ (~has_key /\ fault = "none") => (ext_calls = 0 /\ fallback_calls = 1)
       /\ fault \in {"secrets", "client"} => ext_calls = 0

\* the request was sent, reading the response failed, the local engine answered
C10_Witness ==
  /\ pc = "done" /\ fault = "response"
  /\ ext_calls = 1 /\ fallback_calls = 1
  /\ answer # <<>> /\ answer[1].kind = "top items"

====
